---- MODULE Spec2Model ----
(***************************************************************************)
(* Model of the Minesweeper knowledge-base player (Week 1/minesweeper)     *)
(* and of its board.  A Python list of Sentence objects is a list of       *)
(* object references: the model keeps the objects in `objs` (indexed by    *)
(* object id) and the list `knowledge` as a sequence of ids, so that       *)
(* in-place mutation, list.remove (first element that is == to the         *)
(* argument) and removal during iteration behave as in the source.         *)
(***************************************************************************)
EXTENDS Integers, Sequences, FiniteSets, TLC

\* Grid dimensions handed to Minesweeper(...) and MinesweeperAI(...), and the
\* number of mines Minesweeper(...) places.
Height == 3
Width == 3
NumMines == 3

\* Bounds of the runs whose caller reports arbitrary counts: the number of
\* add_knowledge calls and the largest count reported.
MaxCalls == 3
MaxCount == 2

VARIABLES
    board,       \* Minesweeper.mines: the set of cells that hold a mine
    moves_made,  \* MinesweeperAI.moves_made
    safes,       \* MinesweeperAI.safes
    mines,       \* MinesweeperAI.mines
    knowledge,   \* MinesweeperAI.knowledge: sequence of sentences
    revealed,    \* the cells add_knowledge has been called for
    calls,       \* the number of add_knowledge calls made
    last,        \* the last call made on the AI: operation, arguments, result
    iter,        \* index of the list iterator of a running add_inferred, 0
                 \* when no add_knowledge call is running
    game,        \* the Tic-Tac-Toe board
    optimal,     \* the sides whose every move so far was the one minimax returned
    sent         \* a Sentence object on its own

vars == <<board, moves_made, safes, mines, knowledge, revealed, calls, last,
          iter, game, optimal, sent>>

Cells == (0 .. Height - 1) \X (0 .. Width - 1)

-----------------------------------------------------------------------------
(* Minesweeper (the board)                                                 *)

\* Minesweeper.nearby_mines: mines within one row and column of cell,
\* the cell itself excluded, clipped to the grid.
nearby_mines(b, cell) ==
    Cardinality({c \in b :
        /\ c # cell
        /\ c[1] \in (cell[1] - 1) .. (cell[1] + 1)
        /\ c[2] \in (cell[2] - 1) .. (cell[2] + 1)
        /\ 0 <= c[1] /\ c[1] < Height /\ 0 <= c[2] /\ c[2] < Width})

-----------------------------------------------------------------------------
(* Sentence                                                                *)

Sentence(cells, count) == [cells |-> cells, count |-> count]

\* An optional value: <<>> is Python's None, <<v>> is the value v.
None == <<>>
Some(v) == <<v>>
\* Python truthiness of "None or a set": None and the empty set are false.
Truthy(opt) == opt # None /\ opt[1] # {}

known_mines(s) == IF Cardinality(s.cells) = s.count THEN Some(s.cells) ELSE None

known_safes(s) == IF s.count = 0 THEN Some(s.cells) ELSE None

\* Sentence.mark_mine without `self.count -= 1`.
SentenceMarkMineNoDecrement(s, cell) ==
    IF cell \in s.cells
    THEN [cells |-> s.cells \ {cell}, count |-> s.count]
    ELSE s

SentenceMarkMine(s, cell) ==
    IF cell \in s.cells
    THEN [cells |-> s.cells \ {cell}, count |-> s.count - 1]
    ELSE s

SentenceMarkSafe(s, cell) ==
    IF cell \in s.cells
    THEN [cells |-> s.cells \ {cell}, count |-> s.count]
    ELSE s

-----------------------------------------------------------------------------
(* MinesweeperAI.  An AI value is a record                                 *)
(*   [moves_made, safes, mines, knowledge (ids), objs (id -> sentence),    *)
(*    clash].                                                              *)
(* clash is a history field: it becomes TRUE when, at some point inside    *)
(* the running call, a cell is in safes and in mines at once.              *)

Note(ai) == [ai EXCEPT !.clash = @ \/ (ai.safes \cap ai.mines # {})]

InList(seq, x) == \E j \in 1 .. Len(seq) : seq[j] = x

RemoveAt(seq, j) == SubSeq(seq, 1, j - 1) \o SubSeq(seq, j + 1, Len(seq))

\* Index of the first list element that is == (Sentence.__eq__) to object id,
\* 0 when there is none: what `x in list` and list.remove(x) look for.
FirstEqual(ai, id) ==
    LET hits == {j \in 1 .. Len(ai.knowledge) : ai.objs[ai.knowledge[j]] = ai.objs[id]}
    IN  IF hits = {} THEN 0 ELSE CHOOSE j \in hits : \A k \in hits : j <= k

mark_mine(ai, cell) ==
    Note(
    [ai EXCEPT !.mines = @ \cup {cell},
               !.objs = [id \in DOMAIN @ |->
                            IF InList(ai.knowledge, id)
                            THEN SentenceMarkMine(@[id], cell) ELSE @[id]]])

mark_safe(ai, cell) ==
    Note(
    [ai EXCEPT !.safes = @ \cup {cell},
               !.objs = [id \in DOMAIN @ |->
                            IF InList(ai.knowledge, id)
                            THEN SentenceMarkSafe(@[id], cell) ELSE @[id]]])

RECURSIVE MarkAllSafe(_, _)
MarkAllSafe(ai, todo) ==
    IF todo = {} THEN ai
    ELSE LET cell == CHOOSE c \in todo : TRUE
         IN  MarkAllSafe(mark_safe(ai, cell), todo \ {cell})

RECURSIVE MarkAllMines(_, _)
MarkAllMines(ai, todo) ==
    IF todo = {} THEN ai
    ELSE LET cell == CHOOSE c \in todo : TRUE
         IN  MarkAllMines(mark_mine(ai, cell), todo \ {cell})

\* First loop of verify_if_safe_or_mine, over a copy of the sentence's cells.
RECURSIVE StripKnown(_, _)
StripKnown(ai, todo) ==
    IF todo = {} THEN ai
    ELSE LET cell == CHOOSE c \in todo : TRUE
             a1 == IF cell \in ai.moves_made \/ cell \in ai.safes
                   THEN mark_safe(ai, cell) ELSE ai
             a2 == IF cell \in a1.mines THEN mark_mine(a1, cell) ELSE a1
         IN  StripKnown(a2, todo \ {cell})

verify_if_safe_or_mine(ai, id) ==
    LET a1 == StripKnown(ai, ai.objs[id].cells)
        s1 == a1.objs[id]
        a2 == IF Truthy(known_safes(s1)) THEN MarkAllSafe(a1, s1.cells)
              ELSE IF Truthy(known_mines(s1)) THEN MarkAllMines(a1, s1.cells)
              ELSE a1
        j  == FirstEqual(a2, id)
    IN  IF Cardinality(a2.objs[id].cells) = 0 /\ j # 0
        THEN [a2 EXCEPT !.knowledge = RemoveAt(@, j)]
        ELSE a2

\* The neighbourhood without the diagonal cells.
NewCellsOrthogonal(ai, cell) ==
    {c \in Cells :
        /\ \/ c[1] = cell[1] /\ c[2] \in (cell[2] - 1) .. (cell[2] + 1)
           \/ c[2] = cell[2] /\ c[1] \in (cell[1] - 1) .. (cell[1] + 1)
        /\ c \notin ai.moves_made}

\* The cells add_new_sentence collects: the 3x3 block around cell, clipped
\* to the grid, without the cells in moves_made.
NewCells(ai, cell) ==
    {c \in Cells :
        /\ c[1] \in (cell[1] - 1) .. (cell[1] + 1)
        /\ c[2] \in (cell[2] - 1) .. (cell[2] + 1)
        /\ c \notin ai.moves_made}

\* Returns the AI with the new Sentence object allocated (its id is
\* Len(objs)) and appended to knowledge unless an equal sentence is there.
add_new_sentence(ai, cell, count) ==
    LET newSentence == Sentence(NewCells(ai, cell), count)
        a1 == [ai EXCEPT !.objs = Append(@, newSentence)]
        id == Len(a1.objs)
    IN  IF FirstEqual(a1, id) = 0
        THEN [a1 EXCEPT !.knowledge = Append(@, id)]
        ELSE a1

\* Lines 239-240 without `sentence.count -= otherSentence.count`.
SubtractCellsOnly(sentence, otherSentence) ==
    Sentence(sentence.cells \ otherSentence.cells, sentence.count)

\* Lines 239-240: the subset rule applied to sentence, in place.  When both
\* names refer to one object the result is the empty sentence with count 0,
\* as `s -= s` clears the set and the count is then subtracted from itself.
Subtract(sentence, otherSentence) ==
    Sentence(sentence.cells \ otherSentence.cells,
             sentence.count - otherSentence.count)

RECURSIVE InnerLoop(_, _, _, _)
InnerLoop(ai, sid, sentenceCellCount, otherSentences) ==
    IF otherSentences = <<>> THEN ai
    ELSE LET oid == Head(otherSentences)
             sentence == ai.objs[sid]
             otherSentence == ai.objs[oid]
             otherSentenceCellCount == Cardinality(otherSentence.cells)
         IN  IF \/ ~(otherSentence.cells \subseteq sentence.cells)
                \/ sentenceCellCount - otherSentenceCellCount < 1
             THEN InnerLoop(ai, sid, sentenceCellCount, Tail(otherSentences))
             ELSE LET a1 == [ai EXCEPT !.objs[sid] =
                                Subtract(sentence, otherSentence)]
                  IN  InnerLoop(verify_if_safe_or_mine(a1, sid), sid,
                                sentenceCellCount, Tail(otherSentences))

\* The body of the outer loop appending what the subset rule derives from the
\* first proper subset as a new sentence, unless an equal one is in the list,
\* instead of rewriting the sentence in place.
OuterBodyAppends(ai, i) ==
    LET sid == ai.knowledge[i]
        sentence == ai.objs[sid]
        subsets == {j \in 1 .. Len(ai.knowledge) :
                      /\ ai.objs[ai.knowledge[j]].cells \subseteq sentence.cells
                      /\ ai.objs[ai.knowledge[j]].cells # sentence.cells}
    IN  IF subsets = {} THEN verify_if_safe_or_mine(ai, sid)
        ELSE LET j == CHOOSE k \in subsets : \A l \in subsets : k <= l
                 a1 == [ai EXCEPT !.objs = Append(@,
                            Subtract(sentence, ai.objs[ai.knowledge[j]]))]
                 id == Len(a1.objs)
             IN  IF FirstEqual(a1, id) = 0
                 THEN [a1 EXCEPT !.knowledge = Append(@, id)]
                 ELSE a1

\* The body of the outer loop for the element the iterator yields at index i.
OuterBody(ai, i) ==
    LET sid == ai.knowledge[i]
        sentenceCellCount == Cardinality(ai.objs[sid].cells)
        otherSentences == RemoveAt(ai.knowledge, FirstEqual(ai, sid))
        a1 == InnerLoop(ai, sid, sentenceCellCount, otherSentences)
    IN  verify_if_safe_or_mine(a1, sid)

\* `for sentence in self.knowledge`: the list iterator holds an index into
\* the live list, so removals during the loop shift the remaining elements.
RECURSIVE OuterLoop(_, _)
OuterLoop(ai, i) ==
    IF i > Len(ai.knowledge) THEN ai
    ELSE OuterLoop(OuterBody(ai, i), i + 1)

add_inferred(ai) == OuterLoop(ai, 1)

\* add_knowledge without its lines 221-223.
RemoveCellSkipped(ai, cell) == ai

\* Lines 221-223: drop the revealed cell from every sentence, count untouched.
RemoveCell(ai, cell) ==
    [ai EXCEPT !.objs = [id \in DOMAIN @ |->
                            IF InList(ai.knowledge, id)
                            THEN Sentence(@[id].cells \ {cell}, @[id].count)
                            ELSE @[id]]]

\* add_knowledge without `self.safes.add(cell)` (line 213).
BeforeInferredNoSafe(ai, cell, count) ==
    LET a0 == [ai EXCEPT !.moves_made = @ \cup {cell}]
        a1 == add_new_sentence(a0, cell, count)
        a2 == verify_if_safe_or_mine(a1, Len(a1.objs))
    IN  RemoveCell(a2, cell)

\* add_knowledge up to the call of add_inferred (lines 209-223).  The early
\* return of line 217 is never taken: add_new_sentence always returns a
\* Sentence, and `cells is EMPTY_SET` compares a set with pickle's opcode
\* constant by identity, which is false.
BeforeInferred(ai, cell, count) ==
    LET a0 == Note([ai EXCEPT !.moves_made = @ \cup {cell},
                              !.safes = @ \cup {cell}])
        a1 == add_new_sentence(a0, cell, count)
        a2 == verify_if_safe_or_mine(a1, Len(a1.objs))
    IN  RemoveCell(a2, cell)

add_knowledge(ai, cell, count) == add_inferred(BeforeInferred(ai, cell, count))

-----------------------------------------------------------------------------
(* Tic-Tac-Toe (Week 0/tictactoe).  A board is a tuple of three rows of     *)
(* three marks; an action is a pair <<i, j>> of 0-based indices.            *)

X == "X"
O == "O"
EMPTY == "EMPTY"

initial_state ==
    <<<<EMPTY, EMPTY, EMPTY>>, <<EMPTY, EMPTY, EMPTY>>, <<EMPTY, EMPTY, EMPTY>>>>

\* list.count on a row of three squares
RowCount(row, mark) ==
    (IF row[1] = mark THEN 1 ELSE 0) + (IF row[2] = mark THEN 1 ELSE 0)
        + (IF row[3] = mark THEN 1 ELSE 0)

\* The sums of row.count(mark) over the rows.
MarkCount(b, mark) == RowCount(b[1], mark) + RowCount(b[2], mark) + RowCount(b[3], mark)

player(b) ==
    LET x_count == MarkCount(b, X)
        o_count == MarkCount(b, O)
    IN  IF x_count = o_count THEN Some(X)
        ELSE IF x_count > o_count THEN Some(O)
        ELSE None

\* The empty squares in row-major order, as the nested loops append them.
RECURSIVE ActionsFrom(_, _)
ActionsFrom(b, k) ==
    IF k > 8 THEN <<>>
    ELSE LET i == k \div 3
             j == k % 3
         IN  (IF b[i + 1][j + 1] = EMPTY THEN <<<<i, j>>>> ELSE <<>>)
             \o ActionsFrom(b, k + 1)

actions(b) == ActionsFrom(b, 0)

\* result is applied to actions with both indices in 0 .. 2 only, so its
\* ValueError is not raised; the mark is that of player(board), which is X or
\* O on the boards of alternating play.
result(b, action) ==
    [b EXCEPT ![action[1] + 1][action[2] + 1] = player(b)[1]]

\* One iteration of the loop over the rows: the mark returned, or None when
\* the loop goes on.
RowWinner(row) ==
    IF RowCount(row, X) = 3 THEN Some(X)
    ELSE IF RowCount(row, O) = 3 THEN Some(O)
    ELSE None

\* One iteration of the loop over the columns, i counted from 1.
ColumnWinner(b, i) ==
    LET column == <<b[1][i], b[2][i], b[3][i]>>
    IN  IF column = <<X, X, X>> THEN Some(X)
        ELSE IF column = <<O, O, O>> THEN Some(O)
        ELSE None

winner(b) ==
    IF RowWinner(b[1]) # None THEN RowWinner(b[1])
    ELSE IF RowWinner(b[2]) # None THEN RowWinner(b[2])
    ELSE IF RowWinner(b[3]) # None THEN RowWinner(b[3])
    ELSE IF ColumnWinner(b, 1) # None THEN ColumnWinner(b, 1)
    ELSE IF ColumnWinner(b, 2) # None THEN ColumnWinner(b, 2)
    ELSE IF ColumnWinner(b, 3) # None THEN ColumnWinner(b, 3)
    ELSE IF b[1][1] = X /\ b[2][2] = X /\ b[3][3] = X THEN Some(X)
    ELSE IF b[1][3] = X /\ b[2][2] = X /\ b[3][1] = X THEN Some(X)
    ELSE IF b[1][1] = O /\ b[2][2] = O /\ b[3][3] = O THEN Some(O)
    ELSE IF b[1][3] = O /\ b[2][2] = O /\ b[3][1] = O THEN Some(O)
    ELSE None

terminal(b) ==
    LET game_winner == winner(b)
    IN  IF game_winner = Some(X) \/ game_winner = Some(O) THEN TRUE
        ELSE IF \E row \in 1 .. 3 : RowCount(b[row], EMPTY) > 0 THEN FALSE
        ELSE TRUE

utility(b) ==
    LET game_winner == winner(b)
    IN  IF game_winner = Some(X) THEN 1
        ELSE IF game_winner = Some(O) THEN -1
        ELSE 0

\* The module's own max and min.
max(a, b) == IF a < b THEN b ELSE a
min(a, b) == IF a > b THEN b ELSE a

RECURSIVE max_value(_), min_value(_), MaxOver(_, _, _), MinOver(_, _, _)

\* The loop of max_value over the remaining actions acts, with v so far.
MaxOver(b, acts, v) ==
    IF acts = <<>> THEN v
    ELSE LET v1 == max(v, min_value(result(b, Head(acts))))
         IN  IF v1 = 1 THEN v1 ELSE MaxOver(b, Tail(acts), v1)

\* The loop of min_value over the remaining actions acts, with v so far.
MinOver(b, acts, v) ==
    IF acts = <<>> THEN v
    ELSE LET v1 == min(v, max_value(result(b, Head(acts))))
         IN  IF v1 = -1 THEN v1 ELSE MinOver(b, Tail(acts), v1)

max_value(b) == IF terminal(b) THEN utility(b) ELSE MaxOver(b, actions(b), -999)

min_value(b) == IF terminal(b) THEN utility(b) ELSE MinOver(b, actions(b), 999)

\* The loop of minimax for player X: best is <<current_max_value,
\* optimal_action>>.
RECURSIVE MinimaxX(_, _, _)
MinimaxX(b, acts, best) ==
    IF acts = <<>> THEN best[2]
    ELSE LET action_value == min_value(result(b, Head(acts)))
         IN  MinimaxX(b, Tail(acts),
                      IF action_value > best[1]
                      THEN <<action_value, Some(Head(acts))>> ELSE best)

\* The loop for the other player without the update of current_min_value.
RECURSIVE MinimaxOStaleBound(_, _, _)
MinimaxOStaleBound(b, acts, best) ==
    IF acts = <<>> THEN best[2]
    ELSE LET action_value == max_value(result(b, Head(acts)))
         IN  MinimaxOStaleBound(b, Tail(acts),
                                IF action_value < best[1]
                                THEN <<best[1], Some(Head(acts))>> ELSE best)

\* The loop of minimax for the other player: best is <<current_min_value,
\* optimal_action>>.
RECURSIVE MinimaxO(_, _, _)
MinimaxO(b, acts, best) ==
    IF acts = <<>> THEN best[2]
    ELSE LET action_value == max_value(result(b, Head(acts)))
         IN  MinimaxO(b, Tail(acts),
                      IF action_value < best[1]
                      THEN <<action_value, Some(Head(acts))>> ELSE best)

minimax(b) ==
    IF terminal(b) THEN None
    ELSE IF player(b) = Some(X) THEN MinimaxX(b, actions(b), <<-999, None>>)
    ELSE MinimaxO(b, actions(b), <<999, None>>)

-----------------------------------------------------------------------------
(* The state machine                                                       *)

\* No Tic-Tac-Toe game is played and no Sentence is handled on its own.
NoGame ==
    /\ game = initial_state
    /\ optimal = {X, O}
    /\ sent = Sentence({}, 0)

\* The AI object of the current state; object ids are list positions.
ToAI(mm, sf, mn, kn) ==
    [moves_made |-> mm, safes |-> sf, mines |-> mn,
     knowledge |-> [j \in 1 .. Len(kn) |-> j], objs |-> kn, clash |-> FALSE]

CurAI == ToAI(moves_made, safes, mines, knowledge)

\* The sentences of the list, in list order.
Sentences(ai) == [j \in 1 .. Len(ai.knowledge) |-> ai.objs[ai.knowledge[j]]]

NoCell == <<-1, -1>>

\* What the subset rule yields from the sentences of ai: the cells of
\* A.cells - B.cells for sentences A, B of the list with B.cells a non-empty
\* strict subset of A.cells and A.count - B.count = 0.
SubsetSafe(ai) ==
    LET ks == Sentences(ai)
    IN  UNION {ks[a].cells \ ks[b].cells : <<a, b>> \in
                 {p \in (1 .. Len(ks)) \X (1 .. Len(ks)) :
                     /\ ks[p[2]].cells # {}
                     /\ ks[p[2]].cells \subseteq ks[p[1]].cells
                     /\ ks[p[2]].cells # ks[p[1]].cells
                     /\ ks[p[1]].count - ks[p[2]].count = 0}}

\* last.clash: a cell was in safes and in mines at some point of the call.
\* last.sub: SubsetSafe of the knowledge at the start of the call's
\* inference pass (add_inferred).
Call(op, cell, count, ret, clash, sub) ==
    [op |-> op, cell |-> cell, count |-> count, ret |-> ret, clash |-> clash,
     sub |-> sub]

InitAI ==
    /\ moves_made = {}
    /\ safes = {}
    /\ mines = {}
    /\ knowledge = <<>>
    /\ revealed = {}
    /\ calls = 0
    /\ last = Call("init", NoCell, 0, None, FALSE, {})
    /\ iter = 0

\* Minesweeper.__init__ places NumMines mines on distinct cells.
Init ==
    /\ board \in {b \in SUBSET Cells : Cardinality(b) = NumMines}
    /\ InitAI
    /\ NoGame

\* The effect of add_knowledge(cell, count) on the AI's variables.
DoAddKnowledge(cell, count) ==
    LET mid == BeforeInferred(CurAI, cell, count)
        ai == add_inferred(mid)
    IN  /\ moves_made' = ai.moves_made
        /\ safes' = ai.safes
        /\ mines' = ai.mines
        /\ knowledge' = Sentences(ai)
        /\ revealed' = revealed \cup {cell}
        /\ calls' = calls + 1
        /\ last' = Call("add_knowledge", cell, count, None, ai.clash,
                        SubsetSafe(mid))
        /\ UNCHANGED iter

\* The game reveals a cell that holds no mine and reports its true count;
\* each cell is revealed once.
AddKnowledge(cell) ==
    /\ cell \notin board
    /\ cell \notin revealed
    /\ DoAddKnowledge(cell, nearby_mines(board, cell))
    /\ UNCHANGED <<board, game, optimal, sent>>

\* A caller that reports any count for any in-bounds cell, as often as it
\* likes.
AddKnowledgeAny(cell, count) ==
    /\ calls < MaxCalls
    /\ DoAddKnowledge(cell, count)
    /\ UNCHANGED <<board, game, optimal, sent>>

\* make_safe_move popping the cell from self.safes itself instead of from
\* the difference set.
MakeSafeMovePopsSafes ==
    LET possibleMoves == safes \ moves_made
    IN  /\ IF Cardinality(possibleMoves) <= 0
           THEN /\ last' = Call("make_safe_move", NoCell, 0, None, FALSE, {})
                /\ UNCHANGED <<moves_made, safes>>
           ELSE \E safeCell \in possibleMoves :
                /\ moves_made' = moves_made \cup {safeCell}
                /\ safes' = safes \ {safeCell}
                /\ last' = Call("make_safe_move", NoCell, 0, Some(safeCell),
                                FALSE, {})
        /\ UNCHANGED <<board, mines, knowledge, revealed, calls, iter, game, optimal, sent>>

\* make_safe_move choosing among all of self.safes, played cells included.
MakeSafeMoveAnySafe ==
    /\ IF Cardinality(safes) <= 0
       THEN /\ last' = Call("make_safe_move", NoCell, 0, None, FALSE, {})
            /\ UNCHANGED moves_made
       ELSE \E safeCell \in safes :
            /\ moves_made' = moves_made \cup {safeCell}
            /\ last' = Call("make_safe_move", NoCell, 0, Some(safeCell),
                            FALSE, {})
    /\ UNCHANGED <<board, safes, mines, knowledge, revealed, calls, iter, game, optimal,
                   sent>>

\* make_safe_move: set.pop() takes an arbitrary element of
\* safes - moves_made; the chosen cell is added to moves_made.
MakeSafeMove ==
    LET possibleMoves == safes \ moves_made
    IN  /\ IF Cardinality(possibleMoves) <= 0
           THEN /\ last' = Call("make_safe_move", NoCell, 0, None, FALSE, {})
                /\ UNCHANGED moves_made
           ELSE \E safeCell \in possibleMoves :
                /\ moves_made' = moves_made \cup {safeCell}
                /\ last' = Call("make_safe_move", NoCell, 0, Some(safeCell),
                                FALSE, {})
        /\ UNCHANGED <<board, safes, mines, knowledge, revealed, calls, iter, game, optimal,
                   sent>>

\* Row-major order of the scan in make_random_move.
Before(c, d) == c[1] < d[1] \/ (c[1] = d[1] /\ c[2] < d[2])

\* make_random_move without the `elif cell in self.mines` test.
make_random_moveIgnoresMines(mm, mn) ==
    LET free == {c \in Cells : c \notin mm}
    IN  IF free = {} THEN None
        ELSE Some(CHOOSE c \in free : \A d \in free : d = c \/ Before(c, d))

\* make_random_move: the first cell in row-major order that is neither in
\* moves_made nor in mines, None when there is none.
make_random_move(mm, mn) ==
    LET free == {c \in Cells : c \notin mm /\ c \notin mn}
    IN  IF free = {} THEN None
        ELSE Some(CHOOSE c \in free : \A d \in free : d = c \/ Before(c, d))

MakeRandomMove ==
    /\ last' = Call("make_random_move", NoCell, 0,
                    make_random_move(moves_made, mines), FALSE, {})
    /\ UNCHANGED <<board, moves_made, safes, mines, knowledge, revealed, calls,
                   iter, game, optimal, sent>>

\* Truthful play: the game reports true counts, each cell once.
Next ==
    \/ \E cell \in Cells : AddKnowledge(cell)
    \/ MakeSafeMove
    \/ MakeRandomMove

Spec == Init /\ [][Next]_vars

\* Any caller: the counts are checked against no board.
InitAny ==
    /\ board = {}
    /\ InitAI
    /\ NoGame

NextAny ==
    \/ \E cell \in Cells : \E count \in 0 .. MaxCount : AddKnowledgeAny(cell, count)
    \/ MakeSafeMove
    \/ MakeRandomMove

SpecAny == InitAny /\ [][NextAny]_vars

-----------------------------------------------------------------------------
(* Properties                                                              *)

\* The last call was add_knowledge and has returned.
Returned == last.op = "add_knowledge"

\* The in-bounds 8-neighbours of cell.
Neighbours(cell) ==
    {c \in Cells :
        /\ c # cell
        /\ c[1] \in (cell[1] - 1) .. (cell[1] + 1)
        /\ c[2] \in (cell[2] - 1) .. (cell[2] + 1)}

\* C1 - Soundness of derived facts: under truthful play (each revealed cell
\* in bounds, no mine, revealed once, with its true count, safe and random
\* moves interleaved) every cell in mines holds a mine of the board and no
\* cell in safes does.
C1_Soundness == mines \subseteq board /\ safes \cap board = {}

\* The AI has derived a mine and a safe cell that was never revealed.
C1_Witness ==
    /\ mines # {}
    /\ safes \ revealed # {}
    /\ mines \subseteq board
    /\ safes \cap board = {}

\* C2 - Under truthful play safes and mines are disjoint in every reachable
\* state, the states inside an add_knowledge call included (last.clash
\* records an overlap at any point of the call).
C2_Disjoint == safes \cap mines = {} /\ ~last.clash

\* A call that marked mines and safe cells has returned, with the two sets
\* disjoint.
C2_Witness ==
    /\ Returned
    /\ Cardinality(mines) >= 2
    /\ safes \ moves_made # {}
    /\ safes \cap mines = {}
    /\ ~last.clash

\* C3 - After every add_knowledge call returns, for any sequence of calls on
\* in-bounds cells with any counts and safe moves interleaved, no cell of a
\* sentence of the knowledge list is in safes, mines or moves_made.
C3_OnlyUndetermined ==
    Returned =>
        \A j \in 1 .. Len(knowledge) :
            knowledge[j].cells \cap (safes \cup mines \cup moves_made) = {}

\* A call has returned with a sentence that still has cells, while cells
\* are known safe, known mines and played.
C3_Witness ==
    /\ Returned
    /\ calls >= 2
    /\ mines # {}
    /\ safes \ revealed # {}
    /\ moves_made \ revealed # {}
    /\ \E j \in 1 .. Len(knowledge) :
          /\ knowledge[j].cells # {}
          /\ knowledge[j].cells \cap (safes \cup mines \cup moves_made) = {}

\* C4 - Under truthful play, after every add_knowledge call every sentence
\* of the knowledge list has 0 <= count <= |cells|.
C4_CountInRange ==
    Returned =>
        \A j \in 1 .. Len(knowledge) :
            /\ 0 <= knowledge[j].count
            /\ knowledge[j].count <= Cardinality(knowledge[j].cells)

\* After a call that marked a mine, a sentence is left with a count strictly
\* between 0 and the number of its cells.
C4_Witness ==
    /\ Returned
    /\ mines # {}
    /\ \E j \in 1 .. Len(knowledge) :
          /\ 0 < knowledge[j].count
          /\ knowledge[j].count < Cardinality(knowledge[j].cells)

\* C5 - Trivial facts are propagated to fixpoint: after add_knowledge
\* returns no sentence of the knowledge list has cells and a count of 0 or
\* a count equal to the number of its cells.
C5_NoTrivialSentenceLeft ==
    Returned =>
        \A j \in 1 .. Len(knowledge) :
            knowledge[j].cells # {} =>
                /\ knowledge[j].count # 0
                /\ knowledge[j].count # Cardinality(knowledge[j].cells)

\* C6 - Fixpoint idempotence: in a state reached when add_knowledge has
\* returned, running add_inferred again leaves moves_made, safes, mines and
\* the sentences of the knowledge list unchanged.
C6_PassIdempotent ==
    Returned =>
        LET ai == add_inferred(CurAI)
        IN  /\ ai.moves_made = moves_made
            /\ ai.safes = safes
            /\ ai.mines = mines
            /\ Sentences(ai) = knowledge

\* C7 - Subset rule: when the knowledge list holds sentences A and B with
\* B.cells a non-empty strict subset of A.cells and A.count - B.count = 0 as
\* add_inferred starts, every cell of A.cells - B.cells is in safes after
\* the pass.
C7_SubsetRuleMarksSafe == Returned => last.sub \subseteq safes

\* C8 - Zero count: under truthful play, after add_knowledge(cell, 0)
\* returns every in-bounds neighbour of cell is in safes and cell is in
\* moves_made and in safes.
C8_ZeroCount ==
    (Returned /\ last.count = 0) =>
        /\ Neighbours(last.cell) \subseteq safes
        /\ last.cell \in moves_made
        /\ last.cell \in safes

\* The first call on a fresh grid is add_knowledge((0,0), 0) and makes
\* (0,1), (1,0), (1,1) safe.
C8_Witness ==
    /\ Returned
    /\ calls = 1
    /\ last.cell = <<0, 0>>
    /\ last.count = 0
    /\ safes = {<<0, 0>>, <<0, 1>>, <<1, 0>>, <<1, 1>>}

\* C9 - Full count: under truthful play, when add_knowledge(cell, count) is
\* called with count equal to the number of in-bounds neighbours of cell
\* that are in neither safes nor moves_made, all those neighbours are in
\* mines after it returns.
C9_FullCount ==
    [][(/\ last'.op = "add_knowledge"
        /\ calls' = calls + 1
        /\ last'.count =
             Cardinality(Neighbours(last'.cell) \ (safes \cup moves_made)))
       => (Neighbours(last'.cell) \ (safes \cup moves_made)) \subseteq mines'
      ]_vars

\* The first call on a fresh grid is add_knowledge((0,0), 3) and puts
\* (0,1), (1,0), (1,1) in mines.
C9_Witness ==
    /\ Returned
    /\ calls = 1
    /\ last.cell = <<0, 0>>
    /\ last.count = 3
    /\ mines = {<<0, 1>>, <<1, 0>>, <<1, 1>>}

\* C10 - Monotonicity: across any sequence of add_knowledge, make_safe_move
\* and make_random_move calls each of moves_made, safes and mines only
\* grows.
C10_Monotonic ==
    [][/\ moves_made \subseteq moves_made'
       /\ safes \subseteq safes'
       /\ mines \subseteq mines']_vars

\* A safe move has been played while cells are known safe and known mines.
C10_Witness ==
    /\ last.op = "make_safe_move"
    /\ last.ret # None
    /\ mines # {}
    /\ moves_made \ revealed # {}

\* C11 - make_safe_move returns None exactly when safes - moves_made is
\* empty before the call, and otherwise returns a cell that was in safes and
\* not in moves_made before the call.
C11_SafeMoveResult ==
    [][last'.op = "make_safe_move" =>
          /\ (last'.ret = None) <=> (safes \ moves_made = {})
          /\ last'.ret # None => last'.ret[1] \in safes \ moves_made
      ]_vars

\* make_safe_move has returned a cell that was derived safe and never
\* revealed.
C11_Witness ==
    /\ last.op = "make_safe_move"
    /\ last.ret # None
    /\ last.ret[1] \in safes \ revealed

\* C12 - The move selector is read-only: make_safe_move leaves moves_made,
\* safes, mines and knowledge as they were before the call.
C12_SafeMoveReadOnly ==
    [][last'.op = "make_safe_move" =>
          /\ moves_made' = moves_made
          /\ safes' = safes
          /\ mines' = mines
          /\ knowledge' = knowledge
      ]_vars

\* C13 - make_random_move returns None exactly when every in-bounds cell is
\* in moves_made or mines, otherwise an in-bounds cell that is in neither,
\* and leaves moves_made, safes, mines and knowledge unchanged.
C13_RandomMoveResult ==
    [][last'.op = "make_random_move" =>
          /\ (last'.ret = None) <=> (Cells \subseteq moves_made \cup mines)
          /\ last'.ret # None => last'.ret[1] \in Cells \ (moves_made \cup mines)
          /\ moves_made' = moves_made
          /\ safes' = safes
          /\ mines' = mines
          /\ knowledge' = knowledge
      ]_vars

\* make_random_move has returned a cell while a mine that comes earlier in
\* its scan is known.
C13_Witness ==
    /\ last.op = "make_random_move"
    /\ last.ret # None
    /\ last.ret[1] \notin moves_made \cup mines
    /\ \E m \in mines \ moves_made : Before(m, last.ret[1])

\* C14 - No duplicate sentences: under truthful play, after every
\* add_knowledge call the knowledge list holds no two entries with the same
\* cells and the same count.
C14_NoDuplicateSentences ==
    Returned =>
        \A j, k \in 1 .. Len(knowledge) : j # k => knowledge[j] # knowledge[k]

\* C15 - No empty sentences: after every add_knowledge call no sentence of
\* the knowledge list has an empty set of cells.
C15_NoEmptySentence ==
    Returned => \A j \in 1 .. Len(knowledge) : knowledge[j].cells # {}

\* C20 - After any sequence of add_knowledge, make_safe_move and
\* make_random_move calls, moves_made is a subset of safes.
C20_MovesAreSafe == moves_made \subseteq safes

\* A cell chosen by make_safe_move and one reported by the game are both
\* played and safe.
C20_Witness ==
    /\ moves_made \ revealed # {}
    /\ revealed # {}
    /\ moves_made \subseteq safes
    /\ last.op = "make_random_move"

-----------------------------------------------------------------------------
(* Tic-Tac-Toe: games of legal alternating moves                            *)

\* One move of the side whose turn it is: result applied to an action of
\* actions(board), which may or may not be the one minimax returns.  A side
\* stays in optimal as long as its moves are the ones minimax returns.
Move(action, optimal_action) ==
    /\ ~terminal(game)
    /\ InList(actions(game), action)
    /\ game' = result(game, action)
    /\ optimal' = IF optimal_action = Some(action) THEN optimal
                  ELSE optimal \ {player(game)[1]}
    /\ UNCHANGED <<board, moves_made, safes, mines, knowledge, revealed, calls,
                   last, iter, sent>>

InitTTT ==
    /\ InitAny

NextTTT ==
    \E optimal_action \in {minimax(game)} :
        \E i \in 0 .. 2 : \E j \in 0 .. 2 : Move(<<i, j>>, optimal_action)

SpecTTT == InitTTT /\ [][NextTTT]_vars

\* The boards with k marks of alternating play: X moves first.
Level(k) ==
    {b \in [1 .. 3 -> [1 .. 3 -> {X, O, EMPTY}]] :
        /\ MarkCount(b, X) = (k + 1) \div 2
        /\ MarkCount(b, O) = k \div 2}

SetMax(S) == CHOOSE v \in S : \A w \in S : w <= v
SetMin(S) == CHOOSE v \in S : \A w \in S : v <= w

\* The game-theoretic value of every board with at least k marks, by backward
\* induction from the full boards: the utility of a terminal board, else the
\* best value among all successors for the side to move.
RECURSIVE ValueTable(_)
ValueTable(k) ==
    IF k = 9 THEN [b \in Level(9) |-> utility(b)] @@ <<>>
    ELSE LET next == ValueTable(k + 1)
             succ(b) == {next[result(b, a)] :
                           a \in {c \in (0 .. 2) \X (0 .. 2) :
                                     b[c[1] + 1][c[2] + 1] = EMPTY}}
         IN  [b \in Level(k) |->
                 IF terminal(b) THEN utility(b)
                 ELSE IF k % 2 = 0 THEN SetMax(succ(b)) ELSE SetMin(succ(b))]
             @@ next

GameValue == ValueTable(0)

Other(side) == IF side = X THEN O ELSE X

\* C18: on every board of alternating play, minimax returns None when the
\* board is terminal and otherwise an action of actions(board) whose resulting
\* position has the game-theoretic value of the board for the side to move;
\* a side that has played only the returned actions never sees the opponent
\* as winner.
C18_MinimaxOptimal ==
    LET optimal_action == minimax(game)
    IN  /\ terminal(game) => optimal_action = None
        /\ ~terminal(game) =>
              /\ optimal_action # None
              /\ InList(actions(game), optimal_action[1])
              /\ GameValue[result(game, optimal_action[1])] = GameValue[game]
        /\ \A side \in optimal : winner(game) # Some(Other(side))

\* A finished game in which O played only what minimax returned, X did not,
\* and nobody won.
C18_Witness ==
    /\ terminal(game)
    /\ optimal = {O}
    /\ winner(game) = None
    /\ minimax(game) = None

-----------------------------------------------------------------------------
(* A Sentence on its own                                                    *)

\* sentence.mark_mine(cell) on the Sentence object sent.
SentMarkMine(cell) ==
    /\ sent' = SentenceMarkMine(sent, cell)
    /\ last' = Call("Sentence.mark_mine", cell, 0, None, FALSE, {})
    /\ UNCHANGED <<board, moves_made, safes, mines, knowledge, revealed, calls,
                   iter, game, optimal>>

\* sentence.mark_safe(cell) on the Sentence object sent.
SentMarkSafe(cell) ==
    /\ sent' = SentenceMarkSafe(sent, cell)
    /\ last' = Call("Sentence.mark_safe", cell, 0, None, FALSE, {})
    /\ UNCHANGED <<board, moves_made, safes, mines, knowledge, revealed, calls,
                   iter, game, optimal>>

\* Sentence(cells, count) for any set of cells of the grid and a small count.
InitSentence ==
    /\ board = {}
    /\ InitAI
    /\ game = initial_state
    /\ optimal = {X, O}
    /\ sent \in {Sentence(cells, count) :
                   cells \in SUBSET Cells, count \in 0 .. MaxCount}

NextSentence ==
    \/ \E cell \in Cells : SentMarkMine(cell)
    \/ \E cell \in Cells : SentMarkSafe(cell)

SpecSentence == InitSentence /\ [][NextSentence]_vars

\* C19: Sentence.mark_mine(cell) on a sentence holding cell removes the cell
\* and lowers count by exactly 1, Sentence.mark_safe(cell) on a sentence
\* holding cell removes the cell and keeps count, both leave cells and count
\* as they are when the sentence does not hold cell, and a call that repeats
\* the call before it (same operation, same cell) changes nothing.
C19_SentenceMarks ==
    [][/\ last'.op = "Sentence.mark_mine" =>
             IF last'.cell \in sent.cells
             THEN /\ sent'.cells = sent.cells \ {last'.cell}
                  /\ sent'.count = sent.count - 1
             ELSE sent' = sent
       /\ last'.op = "Sentence.mark_safe" =>
             IF last'.cell \in sent.cells
             THEN /\ sent'.cells = sent.cells \ {last'.cell}
                  /\ sent'.count = sent.count
             ELSE sent' = sent
       /\ (last'.op \in {"Sentence.mark_mine", "Sentence.mark_safe"}
              /\ last'.op = last.op /\ last'.cell = last.cell) => sent' = sent
      ]_vars

\* After a mark_mine(cell) call the sentence does not hold cell, its count has
\* fallen below 0, the least count of a new Sentence here, so mark_mine has
\* removed cells, and some cells are left.
C19_Witness ==
    /\ last.op = "Sentence.mark_mine"
    /\ last.cell \notin sent.cells
    /\ sent.count < 0
    /\ sent.cells # {}

-----------------------------------------------------------------------------
(* Callers that break the contract of add_knowledge                         *)

\* The cells of the ring around the grid: one step out of bounds.
OutCells == ((-1 .. Height) \X (-1 .. Width)) \ Cells

\* Any cell of the grid or of the ring around it, any count, as often as the
\* caller likes.
NextInvalid ==
    \E cell \in Cells \cup OutCells :
        \E count \in 0 .. MaxCount : AddKnowledgeAny(cell, count)

SpecInvalid == InitAny /\ [][NextInvalid]_vars

\* The step is an add_knowledge call for a cell outside the grid or for a
\* cell a call was made for before.
InvalidCall ==
    /\ last'.op = "add_knowledge"
    /\ calls' = calls + 1
    /\ last'.cell \notin Cells \/ last'.cell \in revealed

\* C16: an add_knowledge call for a cell outside the grid, or for a cell
\* observed before, ends in the error outcome InvalidMove and leaves
\* moves_made, safes, mines and knowledge unchanged.
C16_InvalidRejected ==
    [][InvalidCall =>
          /\ last'.ret = Some("InvalidMove")
          /\ moves_made' = moves_made
          /\ safes' = safes
          /\ mines' = mines
          /\ knowledge' = knowledge
      ]_vars

-----------------------------------------------------------------------------
(* add_knowledge step by step: one step per iteration of add_inferred       *)
(* Between two iterations of the outer loop the only live references to     *)
(* Sentence objects are the elements of self.knowledge, so the state is the *)
(* AI's four fields and the index of the list iterator.                     *)

\* add_knowledge up to the call of add_inferred, whose iterator is created.
Begin(cell, count) ==
    /\ iter = 0
    /\ calls < MaxCalls
    /\ \E ai \in {BeforeInferred(CurAI, cell, count)} :
           /\ moves_made' = ai.moves_made
           /\ safes' = ai.safes
           /\ mines' = ai.mines
           /\ knowledge' = Sentences(ai)
    /\ revealed' = revealed \cup {cell}
    /\ calls' = calls + 1
    /\ iter' = 1
    /\ last' = Call("add_inferred", cell, count, None, FALSE, {})
    /\ UNCHANGED <<board, game, optimal, sent>>

\* One iteration of `for sentence in self.knowledge`: the iterator yields
\* the element at its index, advances, and the body runs.
InferStep ==
    /\ iter # 0
    /\ iter <= Len(knowledge)
    /\ \E ai \in {OuterBody(CurAI, iter)} :
           /\ moves_made' = ai.moves_made
           /\ safes' = ai.safes
           /\ mines' = ai.mines
           /\ knowledge' = Sentences(ai)
    /\ iter' = iter + 1
    /\ UNCHANGED <<board, revealed, calls, last, game, optimal, sent>>

\* The iterator is exhausted: add_inferred and add_knowledge return.
Return ==
    /\ iter # 0
    /\ iter > Len(knowledge)
    /\ iter' = 0
    /\ last' = Call("add_knowledge", last.cell, last.count, None, FALSE, {})
    /\ UNCHANGED <<board, moves_made, safes, mines, knowledge, revealed, calls,
                   game, optimal, sent>>

\* make_safe_move between two add_knowledge calls.
IdleSafeMove ==
    /\ iter = 0
    /\ MakeSafeMove

NextRun ==
    \/ \E cell \in Cells : \E count \in 0 .. MaxCount : Begin(cell, count)
    \/ InferStep
    \/ Return
    \/ IdleSafeMove

\* The list iterator yields its next element: what an InferStep step does to
\* the index, and nothing else does while a call runs.
IteratorNext ==
    /\ iter # 0
    /\ iter <= Len(knowledge)
    /\ iter' = iter + 1

\* The interpreter runs a call that has begun: the loop goes on to its next
\* iteration while the iterator has an element to yield, and the call
\* returns once it has none.
SpecRun ==
    /\ InitAny
    /\ [][NextRun]_vars
    /\ WF_iter(IteratorNext)
    /\ WF_vars(Return)

\* C17: every add_knowledge call that has begun returns, whatever the
\* knowledge base and the (cell, count) reported, contradicting counts
\* included: each iteration of the inference pass runs with the iterator's
\* index inside the list and brings the index strictly closer to the end of
\* the list, removals included, and a running call leads to its return.
C17_Terminates ==
    /\ [][(iter # 0 /\ iter' # 0) =>
             /\ iter <= Len(knowledge)
             /\ Len(knowledge') - iter' < Len(knowledge) - iter
         ]_vars
    /\ (iter # 0) ~> (iter = 0)

\* The last iteration removed sentences under the iterator, whose index is
\* now more than one past the end of a list that still holds sentences, in a
\* knowledge base the contradicting counts have made inconsistent; the call
\* is about to return.
C17_Witness ==
    /\ iter # 0
    /\ iter > Len(knowledge) + 1
    /\ knowledge # <<>>
    /\ safes \cap mines # {}
    /\ ENABLED Return

====
